---- MODULE Spec2Model ----
(***************************************************************************)
(* Model of the process supervisor of Server-Maker (server_runner.py) and  *)
(* of the readiness projection of the web panel (app.py).                  *)
(*                                                                         *)
(* Text is modelled as sequences of one-character strings, so that         *)
(* str.lower, substring search, the two regular expressions, str.join,     *)
(* str.splitlines and str.strip are computed character by character.       *)
(***************************************************************************)
EXTENDS Integers, Sequences, FiniteSets, TLC

\* ------------------------------------------------------------------------
\* Program constants and literals
\* ------------------------------------------------------------------------

\* server_runner.py:29
MAX_LOG_LINES == 300

\* The value None of an optional string (no text is a one-element sequence
\* holding a four-character string, so it differs from every text).
None == <<"None">>

\* The empty process handle (server_process = None); processes are 1, 2, ...
NoProcess == 0

UPPER ==
    <<"A", "B", "C", "D", "E", "F", "G", "H", "I", "J", "K", "L", "M", "N", "O", "P", "Q", "R", "S", "T", "U", "V", "W", "X", "Y", "Z">>

LOWER ==
    <<"a", "b", "c", "d", "e", "f", "g", "h", "i", "j", "k", "l", "m", "n", "o", "p", "q", "r", "s", "t", "u", "v", "w", "x", "y", "z">>

DIGITS ==
    <<"0", "1", "2", "3", "4", "5", "6", "7", "8", "9">>

WHITESPACE ==
    <<" ", "\t", "\n", "\r", "\f">>

\* Characters at which str.splitlines breaks a text.
LINE_BREAKS == {"\n", "\r", "\f"}

\* app.py:106
DONE_MARKER ==
    <<"d", "o", "n", "e", " ", "(">>

\* server_runner.py:228
LOGS_PLACEHOLDER ==
    <<"S", "e", "r", "v", "e", "r", " ", "i", "s", " ", "s", "t", "a", "r", "t", "i", "n", "g", " ", "o", "r", " ", "n", "o", "t", " ", "r", "u", "n", "n", "i", "n", "g", " ", "y", "e", "t", ".", ".", ".">>

\* server_runner.py:284
READY_MARKER ==
    <<"f", "o", "u", "n", "d", " ", "m", "i", "n", "e", "c", "r", "a", "f", "t", " ", "j", "a", "v", "a", " ", "t", "u", "n", "n", "e", "l">>

\* server_runner.py:294
CLAIM_MARKER ==
    <<"c", "l", "a", "i", "m", " ", "v", "i", "s", "i", "t">>

\* server_runner.py:204, the text stop_server writes to the child's stdin
STOP_COMMAND == <<"s", "t", "o", "p", "\n">>

\* server_runner.py:286, the literal parts of the join-domain pattern
JOINMC_SUFFIX ==
    <<".", "j", "o", "i", "n", "m", "c", ".", "l", "i", "n", "k">>

SCHEME_HTTPS ==
    <<"h", "t", "t", "p", "s", ":", "/", "/">>

SCHEME_HTTP ==
    <<"h", "t", "t", "p", ":", "/", "/">>

\* server_runner.py:295, the literal part of the claim-URL pattern
CLAIM_PREFIX ==
    <<"h", "t", "t", "p", "s", ":", "/", "/", "p", "l", "a", "y", "i", "t", ".", "g", "g", "/", "m", "c", "/">>

\* ------------------------------------------------------------------------
\* Text primitives
\* ------------------------------------------------------------------------

\* str.lower on one character (ASCII letters).
LowerOf == [c \in {UPPER[i] : i \in 1..Len(UPPER)} |->
               LOWER[CHOOSE i \in 1..Len(UPPER) : UPPER[i] = c]]

Lower(c) == IF c \in DOMAIN LowerOf THEN LowerOf[c] ELSE c

\* str.lower
LowerStr(s) == [i \in 1..Len(s) |-> Lower(s[i])]

\* The text pat occurs in s at position i.
MatchesAt(s, i, pat) ==
    /\ i >= 1
    /\ i + Len(pat) - 1 <= Len(s)
    /\ \A k \in 1..Len(pat) : s[i + k - 1] = pat[k]

\* sub in s
Contains(sub, s) == \E i \in 1..(Len(s) - Len(sub) + 1) : MatchesAt(s, i, sub)

\* The literal pat matches s at position i, ignoring case (re.IGNORECASE).
MatchesAtCI(s, i, pat) ==
    /\ i >= 1
    /\ i + Len(pat) - 1 <= Len(s)
    /\ \A k \in 1..Len(pat) : Lower(s[i + k - 1]) = Lower(pat[k])

LetterSet == {LOWER[i] : i \in 1..Len(LOWER)} \cup {UPPER[i] : i \in 1..Len(UPPER)}

DigitSet == {DIGITS[i] : i \in 1..Len(DIGITS)}

WhitespaceSet == {WHITESPACE[i] : i \in 1..Len(WHITESPACE)}

IsLetter(c) == c \in LetterSet

IsDigit(c) == c \in DigitSet

\* [A-Za-z0-9]
IsAlnum(c) == IsLetter(c) \/ IsDigit(c)

\* [A-Za-z0-9-]
IsLabelChar(c) == IsAlnum(c) \/ c = "-"

\* Length of the longest run of [A-Za-z0-9-] characters of s starting at i.
RECURSIVE LabelRun(_, _)
LabelRun(s, i) ==
    IF i <= Len(s) /\ IsLabelChar(s[i]) THEN 1 + LabelRun(s, i + 1) ELSE 0

\* Length of the longest run of [A-Za-z0-9] characters of s starting at i.
RECURSIVE AlnumRun(_, _)
AlnumRun(s, i) ==
    IF i <= Len(s) /\ IsAlnum(s[i]) THEN 1 + AlnumRun(s, i + 1) ELSE 0

\* str.strip: leading and trailing whitespace removed.
RECURSIVE LStrip(_)
LStrip(s) ==
    IF s # <<>> /\ s[1] \in WhitespaceSet
    THEN LStrip(Tail(s))
    ELSE s

RECURSIVE RStrip(_)
RStrip(s) ==
    IF s # <<>> /\ s[Len(s)] \in WhitespaceSet
    THEN RStrip(SubSeq(s, 1, Len(s) - 1))
    ELSE s

Strip(s) == RStrip(LStrip(s))

\* "\n".join(lines)
RECURSIVE JoinLines(_)
JoinLines(lines) ==
    IF lines = <<>> THEN <<>>
    ELSE IF Len(lines) = 1 THEN lines[1]
    ELSE lines[1] \o <<"\n">> \o JoinLines(Tail(lines))

\* str.splitlines: pieces between line breaks, "\r\n" counting as one break,
\* with no empty piece after a final break.
RECURSIVE SplitLines(_)
SplitLines(s) ==
    IF s = <<>> THEN <<>>
    ELSE IF \A i \in 1..Len(s) : s[i] \notin LINE_BREAKS THEN <<s>>
    ELSE LET k == CHOOSE i \in 1..Len(s) :
                     /\ s[i] \in LINE_BREAKS
                     /\ \A j \in 1..(i - 1) : s[j] \notin LINE_BREAKS
             e == IF s[k] = "\r" /\ k < Len(s) /\ s[k + 1] = "\n" THEN k + 1 ELSE k
         IN  <<SubSeq(s, 1, k - 1)>> \o SplitLines(SubSeq(s, e + 1, Len(s)))

\* ------------------------------------------------------------------------
\* Output lines a child process may print (the inputs of the readers)
\* ------------------------------------------------------------------------

LineStarting ==
    <<"S", "t", "a", "r", "t", "i", "n", "g", ".", ".", ".">>

LineLoading ==
    <<"L", "o", "a", "d", "i", "n", "g", " ", "w", "o", "r", "l", "d", ".", ".", ".">>

LineDone ==
    <<"[", "S", "e", "r", "v", "e", "r", "]", " ", "D", "o", "n", "e", " ", "(", "1", "2", ".", "3", "s", ")", "!">>

LineDoneUpper ==
    <<"D", "O", "N", "E", " ", "(">>

LineDoneNoSpace ==
    <<"d", "o", "n", "e", "(", "1", "s", ")">>

LineFormFeed ==
    <<"u", "p", "\f", "D", "o", "n", "e", " ", "(", "0", "s", ")">>

LineReadyBare ==
    <<"F", "o", "u", "n", "d", " ", "M", "i", "n", "e", "c", "r", "a", "f", "t", " ", "J", "a", "v", "a", " ", "t", "u", "n", "n", "e", "l", ":", " ", "f", "o", "o", ".", "j", "o", "i", "n", "m", "c", ".", "l", "i", "n", "k">>

LineReadyScheme ==
    <<"f", "o", "u", "n", "d", " ", "m", "i", "n", "e", "c", "r", "a", "f", "t", " ", "j", "a", "v", "a", " ", "t", "u", "n", "n", "e", "l", ":", " ", "h", "t", "t", "p", "s", ":", "/", "/", "B", "a", "r", "-", "2", ".", "j", "o", "i", "n", "m", "c", ".", "l", "i", "n", "k">>

LineReadyNoDomain ==
    <<"F", "o", "u", "n", "d", " ", "m", "i", "n", "e", "c", "r", "a", "f", "t", " ", "j", "a", "v", "a", " ", "t", "u", "n", "n", "e", "l">>

LineClaim1 ==
    <<"f", "a", "i", "l", "e", "d", " ", "t", "o", " ", "e", "x", "c", "h", "a", "n", "g", "e", ",", " ", "t", "o", " ", "c", "l", "a", "i", "m", " ", "v", "i", "s", "i", "t", ":", " ", "h", "t", "t", "p", "s", ":", "/", "/", "p", "l", "a", "y", "i", "t", ".", "g", "g", "/", "m", "c", "/", "A", "B", "1", "2">>

LineClaim2 ==
    <<"T", "o", " ", "C", "L", "A", "I", "M", " ", "V", "I", "S", "I", "T", ":", " ", "h", "t", "t", "p", "s", ":", "/", "/", "p", "l", "a", "y", "i", "t", ".", "g", "g", "/", "m", "c", "/", "c", "d", "9", ".">>

LineClaimNoUrl ==
    <<"c", "l", "a", "i", "m", " ", "v", "i", "s", "i", "t", ":", " ", "h", "t", "t", "p", ":", "/", "/", "p", "l", "a", "y", "i", "t", ".", "g", "g", "/">>

LineNoMarker ==
    <<"s", "e", "e", " ", "x", ".", "j", "o", "i", "n", "m", "c", ".", "l", "i", "n", "k", " ", "o", "r", " ", "h", "t", "t", "p", "s", ":", "/", "/", "p", "l", "a", "y", "i", "t", ".", "g", "g", "/", "m", "c", "/", "z", "z">>

DomainFoo ==
    <<"f", "o", "o", ".", "j", "o", "i", "n", "m", "c", ".", "l", "i", "n", "k">>

DomainBar ==
    <<"B", "a", "r", "-", "2", ".", "j", "o", "i", "n", "m", "c", ".", "l", "i", "n", "k">>

UrlAB12 ==
    <<"h", "t", "t", "p", "s", ":", "/", "/", "p", "l", "a", "y", "i", "t", ".", "g", "g", "/", "m", "c", "/", "A", "B", "1", "2">>

UrlCd9 ==
    <<"h", "t", "t", "p", "s", ":", "/", "/", "p", "l", "a", "y", "i", "t", ".", "g", "g", "/", "m", "c", "/", "c", "d", "9">>

\* ------------------------------------------------------------------------
\* Readers of the log buffer (pure functions of the supervisor's state)
\* ------------------------------------------------------------------------

\* is_server_running: the handle is set and poll() reports no exit code.
is_server_running(handle, live) == handle # NoProcess /\ handle \in live

\* get_logs: the buffer joined with newlines, or the placeholder.
get_logs(output) ==
    IF output # <<>> THEN JoinLines(output) ELSE LOGS_PLACEHOLDER

\* HasDoneMarker with the lower() forgotten: a case-sensitive test.
HasDoneMarkerCaseSensitive(line) == Contains(DONE_MARKER, line)

\* "done (" in line.lower()
HasDoneMarker(line) == Contains(DONE_MARKER, LowerStr(line))

\* The loop of get_server_state over reversed(logs), from index i down.
RECURSIVE ScanDone(_, _)
ScanDone(logs, i) ==
    IF i = 0 THEN "booting"
    ELSE IF HasDoneMarker(logs[i]) THEN "online"
    ELSE ScanDone(logs, i - 1)

\* get_server_state with the server_exists() test forgotten.
get_server_state_no_dir_test(exists, handle, live, output) ==
    IF ~is_server_running(handle, live) THEN "offline"
    ELSE LET logs == SplitLines(get_logs(output))
         IN  ScanDone(logs, Len(logs))

\* get_server_state
get_server_state(exists, handle, live, output) ==
    IF ~exists THEN "offline"
    ELSE IF ~is_server_running(handle, live) THEN "offline"
    ELSE LET logs == SplitLines(get_logs(output))
         IN  ScanDone(logs, Len(logs))

\* Group 1 of [A-Za-z0-9-]+\.joinmc\.link matched at position j, or None.
\* No shorter label can match: the character after it is a label character,
\* not the dot.
DomainAt(s, j) ==
    LET n == LabelRun(s, j)
    IN  IF n >= 1 /\ MatchesAtCI(s, j + n, JOINMC_SUFFIX)
        THEN SubSeq(s, j, j + n + Len(JOINMC_SUFFIX) - 1)
        ELSE None

\* MatchDomainAt taking group 0, the whole match, scheme included.
MatchDomainAtGroup0(s, i) ==
    LET j == IF MatchesAtCI(s, i, SCHEME_HTTPS) THEN i + Len(SCHEME_HTTPS)
             ELSE IF MatchesAtCI(s, i, SCHEME_HTTP) THEN i + Len(SCHEME_HTTP)
             ELSE 0
    IN  IF j # 0 /\ DomainAt(s, j) # None
        THEN SubSeq(s, i, j - 1) \o DomainAt(s, j)
        ELSE DomainAt(s, i)

\* Group 1 of (?:https?://)?([A-Za-z0-9-]+\.joinmc\.link) matched at i:
\* with the scheme first, without it when that fails.
MatchDomainAt(s, i) ==
    LET j == IF MatchesAtCI(s, i, SCHEME_HTTPS) THEN i + Len(SCHEME_HTTPS)
             ELSE IF MatchesAtCI(s, i, SCHEME_HTTP) THEN i + Len(SCHEME_HTTP)
             ELSE 0
    IN  IF j # 0 /\ DomainAt(s, j) # None THEN DomainAt(s, j) ELSE DomainAt(s, i)

\* re.search of the join-domain pattern from position i on: group 1 of the
\* leftmost match.
RECURSIVE SearchDomainFrom(_, _)
SearchDomainFrom(line, i) ==
    IF i > Len(line) THEN None
    ELSE IF MatchDomainAt(line, i) # None THEN MatchDomainAt(line, i)
    ELSE SearchDomainFrom(line, i + 1)

\* A search that never fails: the line itself stands for the missing match.
SearchDomainAlwaysMatches(line) ==
    IF SearchDomainFrom(line, 1) # None THEN SearchDomainFrom(line, 1) ELSE line

SearchDomain(line) == SearchDomainFrom(line, 1)

\* https://playit\.gg/mc/[A-Za-z0-9]+ matched at position i (group 0), or None.
MatchClaimAt(s, i) ==
    IF MatchesAtCI(s, i, CLAIM_PREFIX) /\ AlnumRun(s, i + Len(CLAIM_PREFIX)) >= 1
    THEN SubSeq(s, i, i + Len(CLAIM_PREFIX) + AlnumRun(s, i + Len(CLAIM_PREFIX)) - 1)
    ELSE None

\* re.search of the claim-URL pattern from position i on: group 0 of the
\* leftmost match.
RECURSIVE SearchClaimFrom(_, _)
SearchClaimFrom(line, i) ==
    IF i > Len(line) THEN None
    ELSE IF MatchClaimAt(line, i) # None THEN MatchClaimAt(line, i)
    ELSE SearchClaimFrom(line, i + 1)

SearchClaim(line) == SearchClaimFrom(line, 1)

\* "found minecraft java tunnel" in lower
IsReadyLine(line) == Contains(READY_MARKER, LowerStr(line))

\* IsClaimLine testing the line itself instead of its lower-cased copy.
IsClaimLineCaseSensitive(line) == Contains(CLAIM_MARKER, line)

\* "claim visit" in lower (tunnel_ready is False whenever the loop gets here)
IsClaimLine(line) == Contains(CLAIM_MARKER, LowerStr(line))

\* The claim_url after the second if of the loop body.
ClaimAfter(line, claim_url) ==
    IF IsClaimLine(line) /\ SearchClaim(line) # None
    THEN SearchClaim(line)
    ELSE claim_url

\* server_output[-MAX_LOG_LINES:]
LastLines(output, n) ==
    IF Len(output) <= n THEN output
    ELSE SubSeq(output, Len(output) - n + 1, Len(output))

\* The loop of get_playit_status over reversed(lines), from index i down,
\* with the claim_url found so far.
RECURSIVE ScanPlayit(_, _, _)
ScanPlayit(lines, i, claim_url) ==
    IF i = 0
    THEN [tunnel_ready |-> FALSE, claim_url |-> claim_url, joinmc_domain |-> None]
    ELSE IF IsReadyLine(lines[i]) /\ SearchDomain(lines[i]) # None
    THEN [tunnel_ready |-> TRUE, claim_url |-> claim_url,
          joinmc_domain |-> SearchDomain(lines[i])]
    ELSE ScanPlayit(lines, i - 1, ClaimAfter(lines[i], claim_url))

\* get_playit_status
get_playit_status(output) ==
    LET lines == LastLines(output, MAX_LOG_LINES)
    IN  ScanPlayit(lines, Len(lines), None)

\* ------------------------------------------------------------------------
\* The log buffer
\* ------------------------------------------------------------------------

\* The locked body of stream_logs with the eviction test off by one.
AppendLineEvictEarly(output, line) ==
    IF Len(Append(output, line)) >= MAX_LOG_LINES
    THEN Tail(Append(output, line))
    ELSE Append(output, line)

\* The locked body of stream_logs: append, then pop(0) when over capacity.
AppendLine(output, line) ==
    IF Len(Append(output, line)) > MAX_LOG_LINES
    THEN Tail(Append(output, line))
    ELSE Append(output, line)

\* ------------------------------------------------------------------------
\* State
\* ------------------------------------------------------------------------

VARIABLES
    server_process,   \* the global handle: NoProcess or a process
    alive,            \* the child processes that have not exited
    dir_exists,       \* os.path.isdir(SERVER_DIR)
    server_output,    \* the log buffer
    spawned,          \* how many child processes Popen has created: 1..spawned
    pipe,             \* per process: the lines written to stdout and not yet read
    emitted,          \* per process: how many lines it has written
    th,               \* per request thread: its position and locals
    pump,             \* per launch (named by the process it spawned): its thread
    calls,            \* how many operations the web layer has invoked
    appended,         \* history: the lines appended since the buffer was cleared
    state_result,     \* what the last get_server_state call returned
    playit_result,    \* what the last get_playit_status call returned
    stdin,            \* per process: the texts written to its stdin and flushed
    output_lock,      \* the holder of the buffer lock
    ram_file,         \* the content of ram.txt, None when the file is missing
    ram_result        \* what the RAM setting read by launch_server came to

vars ==
    <<server_process, alive, dir_exists, server_output, spawned, pipe, emitted,
      th, pump, calls, appended, state_result, playit_result, stdin, output_lock,
      ram_file, ram_result>>

Unset == "unset"

\* No tuple returned yet by get_playit_status; a returned tuple r is <<r>>.
NoTuple == <<>>

\* Bounds: the longest buffer given to get_server_state and to
\* get_playit_status; how many children Popen may create and how many
\* operations the web layer may invoke in one behaviour; how many lines the
\* children print, all together, under concurrent requests; and how many
\* lines one launch pumps when the buffer is filled past MAX_LOG_LINES.
MaxStateLines == 2
MaxPlayitLines == 3
MaxProcs == 2
MaxCalls == 2
MaxEmit == 1
MaxPumped == 302

\* The request threads of the web server.
Threads == {"t1", "t2"}

ProcIds == 1..MaxProcs

\* The decimal digits of n.
RECURSIVE Decimal(_)
Decimal(n) ==
    IF n < 10 THEN <<DIGITS[n + 1]>>
    ELSE Decimal(n \div 10) \o <<DIGITS[(n % 10) + 1]>>

\* The n-th line child process p prints, as the pump reads it from the pipe:
\* indented, and ended by a blank and the newline.
NumberedLine(p, n) ==
    <<" ", "[">> \o Decimal(p) \o <<"]", " ">> \o Decimal(n) \o <<" ", "\n">>

\* All sequences over S of length at most n.
SeqUpTo(S, n) == UNION {[1..k -> S] : k \in 0..n}

StateLines ==
    {LineStarting, LineLoading, LineDone, LineDoneUpper, LineDoneNoSpace,
     LineFormFeed, <<>>}

PlayitLines ==
    {LineStarting, LineReadyBare, LineReadyScheme, LineReadyNoDomain,
     LineClaim1, LineClaim2, LineClaimNoUrl, LineNoMarker}

\* A request thread between two requests. pc is its position; op the operation
\* the web layer invoked and fn the function it is executing (stop_server,
\* when launch_server or delete_server has called it); stopped_first records
\* that launch_server or delete_server found a server running; stop_path the path taken
\* through stop_server; mine the process this launch spawned; result how the
\* operation ended; cmd the text given to send_command and checked the
\* handle its is_server_running test polled; log the last record the
\* operation logged above level INFO.
IdleThread ==
    [pc |-> "idle", op |-> "none", fn |-> "none", stopped_first |-> FALSE,
     stop_path |-> "none", mine |-> NoProcess, result |-> "none",
     cmd |-> <<>>, checked |-> NoProcess, log |-> "none"]

NoPump == [pc |-> "none", src |-> NoProcess, line |-> <<>>]

\* Nobody holds output_lock.
Free == <<>>

\* No request thread is running and no pump exists.
NoThreads ==
    /\ th = [t \in Threads |-> IdleThread]
    /\ pump = [p \in ProcIds |-> NoPump]
    /\ calls = 0
    /\ output_lock = Free

NoChildOutput ==
    /\ pipe = [p \in ProcIds |-> <<>>]
    /\ emitted = [p \in ProcIds |-> 0]
    /\ stdin = [p \in ProcIds |-> <<>>]

\* No query has been answered; ram.txt is missing and has not been read.
NoQueries ==
    /\ state_result = Unset
    /\ playit_result = NoTuple
    /\ ram_file = None
    /\ ram_result = NoTuple

\* ------------------------------------------------------------------------
\* Specification of get_server_state over every supervisor state
\* ------------------------------------------------------------------------

StateInit ==
    /\ spawned = 1
    /\ server_process \in {NoProcess, 1}
    /\ alive \in SUBSET {1}
    /\ dir_exists \in BOOLEAN
    /\ server_output \in SeqUpTo(StateLines, MaxStateLines)
    /\ appended = server_output
    /\ NoThreads
    /\ NoChildOutput
    /\ NoQueries

GetServerState ==
    /\ state_result = Unset
    /\ state_result' = get_server_state(dir_exists, server_process, alive, server_output)
    /\ UNCHANGED <<server_process, alive, dir_exists, server_output, spawned, pipe,
                   emitted, th, pump, calls, appended, playit_result,
                   stdin, output_lock, ram_file, ram_result>>

StateNext == GetServerState

SpecState == StateInit /\ [][StateNext]_vars

\* ------------------------------------------------------------------------
\* Specification of get_playit_status over every buffer
\* ------------------------------------------------------------------------

PlayitInit ==
    /\ spawned = 0
    /\ server_process = NoProcess
    /\ alive = {}
    /\ dir_exists = TRUE
    /\ server_output \in SeqUpTo(PlayitLines, MaxPlayitLines)
    /\ appended = server_output
    /\ NoThreads
    /\ NoChildOutput
    /\ NoQueries

GetPlayitStatus ==
    /\ playit_result = NoTuple
    /\ playit_result' = <<get_playit_status(server_output)>>
    /\ UNCHANGED <<server_process, alive, dir_exists, server_output, spawned, pipe,
                   emitted, th, pump, calls, appended, state_result,
                   stdin, output_lock, ram_file, ram_result>>

PlayitNext == GetPlayitStatus

SpecPlayit == PlayitInit /\ [][PlayitNext]_vars

\* ------------------------------------------------------------------------
\* Properties of the readers
\* ------------------------------------------------------------------------

\* The text pat occurs in the line, ignoring case.
MentionsCI(line, pat) == \E k \in 1..Len(line) : MatchesAtCI(line, k, pat)

ProcessAlive == server_process # NoProcess /\ server_process \in alive

\* C5: get_server_state returns "offline" whenever the working directory is
\* absent or the process is not alive, whatever the buffer holds, a "done ("
\* line of a previous run included.
C5_OfflineOverrides ==
    (state_result # Unset /\ (~dir_exists \/ ~ProcessAlive))
        => state_result = "offline"

\* A call with the directory absent, a live process and a "Done (" line buffered.
C5_Witness ==
    /\ state_result = "offline"
    /\ ~dir_exists
    /\ ProcessAlive
    /\ \E i \in 1..Len(server_output) : server_output[i] = LineDone

\* C6: with the working directory present, get_server_state returns "online"
\* exactly when the process is alive and some buffered line contains "done ("
\* in any case, and "booting" when the process is alive and no buffered line
\* does (the empty buffer, exported as the placeholder, included).
C6_OnlineIffAliveAndDone ==
    (state_result # Unset /\ dir_exists) =>
        LET done == \E i \in 1..Len(server_output) :
                        MentionsCI(server_output[i], DONE_MARKER)
        IN  /\ state_result = "online" <=> (ProcessAlive /\ done)
            /\ (ProcessAlive /\ ~done) => state_result = "booting"

\* A live process whose buffer holds a mixed-case "Done (" line.
C6_Witness ==
    /\ dir_exists
    /\ ProcessAlive
    /\ server_output = <<LineStarting, LineDone>>
    /\ state_result = "online"

\* The join domain each ready-marker line of the inputs embeds.
EmbeddedDomain(line) ==
    IF line = LineReadyBare THEN DomainFoo
    ELSE IF line = LineReadyScheme THEN DomainBar
    ELSE None

\* The claim URL each claim-marker line of the inputs carries.
CarriedUrl(line) ==
    IF line = LineClaim1 THEN UrlAB12
    ELSE IF line = LineClaim2 THEN UrlCd9
    ELSE None

IsReadyMarkerLine(line) == MentionsCI(line, READY_MARKER)

IsClaimMarkerLine(line) == MentionsCI(line, CLAIM_MARKER)

Returned(ready, claim, domain) ==
    playit_result =
        <<[tunnel_ready |-> ready, claim_url |-> claim, joinmc_domain |-> domain]>>

\* C7: when the most recent marker line of the buffer is a ready-marker line
\* embedding the domain d, with or without a scheme, get_playit_status returns
\* (true, None, d), d without the scheme, whatever claim-marker lines are older.
C7_ReadyMostRecent ==
    playit_result # NoTuple =>
        \A i \in 1..Len(server_output) :
            ( /\ IsReadyMarkerLine(server_output[i])
              /\ EmbeddedDomain(server_output[i]) # None
              /\ \A j \in (i + 1)..Len(server_output) :
                     /\ ~IsReadyMarkerLine(server_output[j])
                     /\ ~IsClaimMarkerLine(server_output[j]) )
            => Returned(TRUE, None, EmbeddedDomain(server_output[i]))

\* A ready line with a scheme, newer than two claim lines.
C7_Witness ==
    /\ server_output = <<LineClaim1, LineClaim2, LineReadyScheme>>
    /\ Returned(TRUE, None, DomainBar)

\* C8: when the buffer holds no ready-marker line and exactly one claim-marker
\* line carrying a URL u, get_playit_status returns (false, u, None).
C8_OnlyClaim ==
    playit_result # NoTuple =>
        \A i \in 1..Len(server_output) :
            ( /\ \A j \in 1..Len(server_output) : ~IsReadyMarkerLine(server_output[j])
              /\ IsClaimMarkerLine(server_output[i])
              /\ CarriedUrl(server_output[i]) # None
              /\ \A j \in 1..Len(server_output) :
                     (j # i /\ IsClaimMarkerLine(server_output[j]))
                         => CarriedUrl(server_output[j]) = None )
            => Returned(FALSE, CarriedUrl(server_output[i]), None)

\* The claim line in upper case between two unrelated lines.
C8_Witness ==
    /\ server_output = <<LineStarting, LineClaim2, LineNoMarker>>
    /\ Returned(FALSE, UrlCd9, None)

\* C9: whenever the buffer holds a ready-marker line with a domain and a
\* claim-marker line with a URL, in either order, get_playit_status returns
\* ready with the join domain and no claim link.
C9_ReadyAlwaysWins ==
    ( /\ playit_result # NoTuple
      /\ \E i \in 1..Len(server_output) :
             IsReadyMarkerLine(server_output[i]) /\ EmbeddedDomain(server_output[i]) # None
      /\ \E i \in 1..Len(server_output) :
             IsClaimMarkerLine(server_output[i]) /\ CarriedUrl(server_output[i]) # None )
    => /\ playit_result[1].tunnel_ready
       /\ playit_result[1].joinmc_domain # None
       /\ playit_result[1].claim_url = None

\* C10: with no ready-marker line and claim-marker lines carrying different
\* URLs, the claim link returned is the URL of the newest claim-marker line.
C10_NewestClaimWins ==
    ( /\ playit_result # NoTuple
      /\ \A j \in 1..Len(server_output) : ~IsReadyMarkerLine(server_output[j])
      /\ \E i, j \in 1..Len(server_output) :
             /\ CarriedUrl(server_output[i]) # None
             /\ CarriedUrl(server_output[j]) # None
             /\ CarriedUrl(server_output[i]) # CarriedUrl(server_output[j]) )
    => \A i \in 1..Len(server_output) :
           ( /\ CarriedUrl(server_output[i]) # None
             /\ \A j \in (i + 1)..Len(server_output) : CarriedUrl(server_output[j]) = None )
           => playit_result[1].claim_url = CarriedUrl(server_output[i])

\* ------------------------------------------------------------------------
\* Specification of the log buffer over launches long enough to fill it
\* ------------------------------------------------------------------------

BufInit ==
    /\ spawned = 0
    /\ server_process = NoProcess
    /\ alive = {}
    /\ dir_exists = TRUE
    /\ server_output = <<>>
    /\ appended = <<>>
    /\ NoThreads
    /\ NoChildOutput
    /\ NoQueries

\* launch_server with no server running: the buffer is cleared and the child
\* spawned (ok), or Popen raises and the handle is left empty.
BufLaunch(ok) ==
    /\ ~is_server_running(server_process, alive)
    /\ spawned < MaxProcs
    /\ server_output' = <<>>
    /\ appended' = <<>>
    /\ IF ok
       THEN /\ spawned' = spawned + 1
            /\ alive' = alive \cup {spawned + 1}
            /\ server_process' = spawned + 1
       ELSE /\ server_process' = NoProcess
            /\ UNCHANGED <<spawned, alive>>
    /\ UNCHANGED <<dir_exists, pipe, emitted, th, pump, calls, state_result,
                   playit_result,
                   stdin, output_lock, ram_file, ram_result>>

\* One round of the loop of stream_logs: the next line of the running child
\* (every earlier one was appended since the launch cleared the buffer) is
\* read, stripped and appended under the lock.
BufPump ==
    /\ is_server_running(server_process, alive)
    /\ Len(appended) < MaxPumped
    /\ LET trimmed == Strip(NumberedLine(server_process, Len(appended) + 1))
       IN  /\ server_output' = AppendLine(server_output, trimmed)
           /\ appended' = Append(appended, trimmed)
    /\ UNCHANGED <<server_process, alive, dir_exists, spawned, pipe, emitted, th,
                   pump, calls, state_result, playit_result,
                   stdin, output_lock, ram_file, ram_result>>

\* The child exits; its output stream ends.
BufExit ==
    /\ is_server_running(server_process, alive)
    /\ alive' = alive \ {server_process}
    /\ UNCHANGED <<server_process, dir_exists, server_output, spawned, pipe,
                   emitted, th, pump, calls, appended, state_result, playit_result,
                   stdin, output_lock, ram_file, ram_result>>

BufNext ==
    \/ \E ok \in BOOLEAN : BufLaunch(ok)
    \/ BufPump
    \/ BufExit

SpecBuf == BufInit /\ [][BufNext]_vars

\* C4: whatever lines the pump appends within one launch, the buffer never
\* holds more than MAX_LOG_LINES lines and holds exactly the most recent
\* min(n, MAX_LOG_LINES) of the n lines appended, oldest first (so an append
\* at capacity evicts the oldest line and no other).
C4_BufferHoldsMostRecent ==
    LET n == Len(appended)
        k == IF n < MAX_LOG_LINES THEN n ELSE MAX_LOG_LINES
    IN  /\ Len(server_output) <= MAX_LOG_LINES
        /\ server_output = [i \in 1..k |-> appended[n - k + i]]

\* The buffer is full and lines have been evicted.
C4_Witness ==
    /\ Len(appended) > MAX_LOG_LINES
    /\ Len(server_output) = MAX_LOG_LINES
    /\ server_output[1] = appended[Len(appended) - MAX_LOG_LINES + 1]

\* ------------------------------------------------------------------------
\* Specification of the supervisor under concurrent requests
\*
\* Each action is one access to the shared state (the handle, the buffer, a
\* child, the directory) by one thread; no lock guards server_process, so
\* the threads interleave between any two of them. Popen and the assignment
\* of its result are one step, and so are the two evaluations of
\* server_process.stdout that begin stream_logs. A wait on a running child
\* either sees the child exit first (ChildExits) or times out.
\* ------------------------------------------------------------------------

Init ==
    /\ spawned = 0
    /\ server_process = NoProcess
    /\ alive = {}
    /\ dir_exists = TRUE
    /\ server_output = <<>>
    /\ appended = <<>>
    /\ NoThreads
    /\ NoChildOutput
    /\ NoQueries

\* The operations the web layer invokes on the supervisor.
Operations == {"launch", "stop", "delete"}

\* The queries on the handle: is_server_running (as the status routes call
\* it) and send_command.
CmdList == <<"l", "i", "s", "t">>

CmdSay == <<"s", "a", "y", " ", "h", "i">>

Commands == {CmdList, CmdSay}

\* The positions inside the try statement of stop_server.
StopBody == {"stop_write", "stop_wait", "stop_kill", "stop_wait_killed", "stop_finally"}

\* The launches that have not reached Popen yet.
LaunchesPending ==
    {u \in Threads : th[u].op = "launch" /\ th[u].pc \notin {"idle", "start_pump", "ret"}}

\* The thread record after an exception left the operation uncaught.
Raised(r) == [r EXCEPT !.pc = "ret", !.result = "raised"]

\* The thread record after stop_server returned to its caller.
AfterStop(r) ==
    IF r.op = "stop" THEN [r EXCEPT !.pc = "ret", !.result = "returned"]
    ELSE IF r.op = "launch" THEN [r EXCEPT !.fn = "launch", !.pc = "launch_wait"]
    ELSE [r EXCEPT !.fn = "delete", !.pc = "rmtree"]

\* The thread record after is_server_running returned `running` to r.fn.
AfterCheck(r, running) ==
    IF r.fn = "launch"
    THEN IF running
         THEN [r EXCEPT !.fn = "stop", !.pc = "check1", !.stopped_first = TRUE]
         ELSE [r EXCEPT !.pc = "clear"]
    ELSE IF r.fn = "delete"
    THEN IF running
         THEN [r EXCEPT !.fn = "stop", !.pc = "check1", !.stopped_first = TRUE]
         ELSE [r EXCEPT !.pc = "rmtree"]
    ELSE IF r.fn = "send"
    THEN IF running
         THEN [r EXCEPT !.pc = "send_write"]
         ELSE [r EXCEPT !.pc = "ret", !.result = "False", !.log = "warning"]
    ELSE IF r.fn = "running"
    THEN [r EXCEPT !.pc = "ret", !.result = IF running THEN "True" ELSE "False"]
    ELSE IF running
         THEN [r EXCEPT !.pc = "stop_write"]
         ELSE AfterStop(r)

\* The except clause of the forced termination, with the finally clause
\* skipped: the error ends stop_server at once.
KillFailedNoFinally(r) ==
    AfterStop([r EXCEPT !.stop_path = "kill_failed", !.log = "error"])

\* The except clause of the forced termination: the error is logged and
\* control falls to the finally clause.
KillFailed(r) ==
    [r EXCEPT !.pc = "stop_finally", !.stop_path = "kill_failed", !.log = "error"]

\* The web layer invokes operation o on request thread t, which is free: it
\* has served no request yet, or has delivered the outcome of its last one.
Call(t, o) ==
    /\ th[t].pc \in {"idle", "ret"}
    /\ calls < MaxCalls
    /\ o = "launch" => spawned + Cardinality(LaunchesPending) < MaxProcs
    /\ calls' = calls + 1
    /\ th' = [th EXCEPT ![t] = [IdleThread EXCEPT !.pc = "check1", !.op = o, !.fn = o]]
    /\ UNCHANGED <<server_process, alive, dir_exists, server_output, spawned, pipe,
                   emitted, pump, appended, state_result, playit_result,
                   stdin, output_lock, ram_file, ram_result>>

\* is_server_running, first operand: server_process is not None.
Check1(t) ==
    /\ th[t].pc = "check1"
    /\ th' = [th EXCEPT ![t] =
                IF server_process = NoProcess
                THEN AfterCheck(th[t], FALSE)
                ELSE [th[t] EXCEPT !.pc = "check2"]]
    /\ UNCHANGED <<server_process, alive, dir_exists, server_output, spawned, pipe,
                   emitted, pump, calls, appended, state_result, playit_result,
                   stdin, output_lock, ram_file, ram_result>>

\* poll() that reports every process as still running.
PollAlwaysNone(handle, live) == TRUE

\* handle.poll() is None: the process has not exited.
PollIsNone(handle, live) == handle \in live

\* is_server_running, second operand: server_process.poll() is None, on the
\* handle read again (AttributeError when it has been emptied meanwhile).
Check2(t) ==
    /\ th[t].pc = "check2"
    /\ th' = [th EXCEPT ![t] =
                IF server_process = NoProcess
                THEN Raised(th[t])
                ELSE AfterCheck([th[t] EXCEPT !.checked =
                                    IF th[t].fn = "send" THEN server_process
                                    ELSE NoProcess],
                                PollIsNone(server_process, alive))]
    /\ UNCHANGED <<server_process, alive, dir_exists, server_output, spawned, pipe,
                   emitted, pump, calls, appended, state_result, playit_result,
                   stdin, output_lock, ram_file, ram_result>>

\* launch_server: server_process.wait(timeout=30) after stop_server returned.
\* AttributeError on the emptied handle is not caught; TimeoutExpired is.
LaunchWait(t) ==
    /\ th[t].pc = "launch_wait"
    /\ th' = [th EXCEPT ![t] =
                IF server_process = NoProcess
                THEN Raised(th[t])
                ELSE [th[t] EXCEPT !.pc = "clear"]]
    /\ UNCHANGED <<server_process, alive, dir_exists, server_output, spawned, pipe,
                   emitted, pump, calls, appended, state_result, playit_result,
                   stdin, output_lock, ram_file, ram_result>>

\* launch_server: the buffer is cleared under the lock.
LaunchClear(t) ==
    /\ th[t].pc = "clear"
    /\ server_output' = <<>>
    /\ appended' = <<>>
    /\ th' = [th EXCEPT ![t].pc = "spawn"]
    /\ UNCHANGED <<server_process, alive, dir_exists, spawned, pipe, emitted, pump,
                   calls, state_result, playit_result,
                   stdin, output_lock, ram_file, ram_result>>

\* The except clause of the spawn, with the assignment left out: the handle
\* stays as it was.
SpawnFailedHandleKept(handle) == handle

\* The except clause of the spawn: server_process = None.
SpawnFailedHandle(handle) == NoProcess

\* launch_server: Popen creates the child and the handle is set (ok), or
\* Popen raises, the handle is emptied and launch_server returns.
LaunchSpawn(t, ok) ==
    /\ th[t].pc = "spawn"
    /\ ok => dir_exists /\ spawned < MaxProcs
    /\ IF ok
       THEN /\ spawned' = spawned + 1
            /\ alive' = alive \cup {spawned + 1}
            /\ server_process' = spawned + 1
            /\ th' = [th EXCEPT ![t].pc = "start_pump", ![t].mine = spawned + 1]
       ELSE /\ server_process' = SpawnFailedHandle(server_process)
            /\ th' = [th EXCEPT ![t].pc = "ret", ![t].result = "spawn_failed",
                                ![t].log = "error"]
            /\ UNCHANGED <<spawned, alive>>
    /\ UNCHANGED <<dir_exists, server_output, pipe, emitted, pump, calls, appended,
                   state_result, playit_result,
                   stdin, output_lock, ram_file, ram_result>>

\* launch_server: the stream_logs thread is started and launch_server returns.
LaunchStartPump(t) ==
    /\ th[t].pc = "start_pump"
    /\ pump' = [pump EXCEPT ![th[t].mine].pc = "start"]
    /\ th' = [th EXCEPT ![t].pc = "ret", ![t].result = "returned"]
    /\ UNCHANGED <<server_process, alive, dir_exists, server_output, spawned, pipe,
                   emitted, calls, appended, state_result, playit_result,
                   stdin, output_lock, ram_file, ram_result>>

\* stop_server: "stop\n" is written to the child's stdin and flushed (ok), or
\* the write raises: the handle was emptied, the pipe is broken, or the
\* write fails otherwise.
StopWrite(t, ok) ==
    /\ th[t].pc = "stop_write"
    /\ ok => server_process # NoProcess /\ server_process \in alive
    /\ th' = [th EXCEPT ![t].pc = IF ok THEN "stop_wait" ELSE "stop_kill",
                        ![t].stop_path = IF ok THEN "written" ELSE "write_failed",
                        ![t].log = IF ok THEN "none" ELSE "warning"]
    /\ stdin' = IF ok
                THEN [stdin EXCEPT ![server_process] = Append(@, STOP_COMMAND)]
                ELSE stdin
    /\ UNCHANGED <<server_process, alive, dir_exists, server_output, spawned, pipe,
                   emitted, pump, calls, appended, state_result, playit_result,
                   output_lock, ram_file, ram_result>>

\* stop_server: server_process.wait(timeout) returns when the child has
\* exited; it raises TimeoutExpired while the child runs, and AttributeError
\* on an emptied handle.
StopWait(t) ==
    /\ th[t].pc = "stop_wait"
    /\ th' = [th EXCEPT ![t] =
                IF server_process # NoProcess /\ server_process \notin alive
                THEN [th[t] EXCEPT !.pc = "stop_finally", !.stop_path = "graceful"]
                ELSE [th[t] EXCEPT !.pc = "stop_kill", !.stop_path = "timeout",
                                   !.log = "warning"]]
    /\ UNCHANGED <<server_process, alive, dir_exists, server_output, spawned, pipe,
                   emitted, pump, calls, appended, state_result, playit_result,
                   stdin, output_lock, ram_file, ram_result>>

\* stop_server: server_process.kill() ends the child (ok), or raises: the
\* handle was emptied, or the signal could not be sent.
StopKill(t, ok) ==
    /\ th[t].pc = "stop_kill"
    /\ ok => server_process # NoProcess
    /\ IF ok
       THEN /\ alive' = alive \ {server_process}
            /\ th' = [th EXCEPT ![t].pc = "stop_wait_killed"]
       ELSE /\ th' = [th EXCEPT ![t] = KillFailed(th[t])]
            /\ UNCHANGED alive
    /\ UNCHANGED <<server_process, dir_exists, server_output, spawned, pipe, emitted,
                   pump, calls, appended, state_result, playit_result,
                   stdin, output_lock, ram_file, ram_result>>

\* stop_server: the second server_process.wait(timeout); an error (emptied
\* handle, or a handle replaced by a running child: TimeoutExpired) is logged.
StopWaitKilled(t) ==
    /\ th[t].pc = "stop_wait_killed"
    /\ th' = [th EXCEPT ![t] =
                IF server_process # NoProcess /\ server_process \notin alive
                THEN [th[t] EXCEPT !.pc = "stop_finally", !.stop_path = "killed"]
                ELSE KillFailed(th[t])]
    /\ UNCHANGED <<server_process, alive, dir_exists, server_output, spawned, pipe,
                   emitted, pump, calls, appended, state_result, playit_result,
                   stdin, output_lock, ram_file, ram_result>>

\* stop_server: finally, the handle is emptied; stop_server returns.
StopFinally(t) ==
    /\ th[t].pc = "stop_finally"
    /\ server_process' = NoProcess
    /\ th' = [th EXCEPT ![t] = AfterStop(th[t])]
    /\ UNCHANGED <<alive, dir_exists, server_output, spawned, pipe, emitted, pump,
                   calls, appended, state_result, playit_result,
                   stdin, output_lock, ram_file, ram_result>>

\* delete_server: the directory tree is removed (ok) or rmtree raises OSError.
DeleteRmtree(t, ok) ==
    /\ th[t].pc = "rmtree"
    /\ ~ok => dir_exists
    /\ dir_exists' = IF ok THEN FALSE ELSE dir_exists
    /\ th' = [th EXCEPT ![t].pc = "ret",
                        ![t].result = IF ok THEN "True" ELSE "False",
                        ![t].log = IF ok THEN th[t].log ELSE "error"]
    /\ UNCHANGED <<server_process, alive, server_output, spawned, pipe, emitted,
                   pump, calls, appended, state_result, playit_result,
                   stdin, output_lock, ram_file, ram_result>>

\* The web layer invokes send_command(c) on request thread t, which is free.
CallSend(t, c) ==
    /\ th[t].pc \in {"idle", "ret"}
    /\ calls < MaxCalls
    /\ calls' = calls + 1
    /\ th' = [th EXCEPT ![t] = [IdleThread EXCEPT !.pc = "check1", !.op = "send",
                                                 !.fn = "send", !.cmd = c]]
    /\ UNCHANGED <<server_process, alive, dir_exists, server_output, spawned, pipe,
                   emitted, pump, appended, state_result, playit_result,
                   stdin, output_lock, ram_file, ram_result>>

\* send_command: the text written for cmd, without the newline.
SentTextNoNewline(cmd) == cmd

\* send_command: the text written for cmd.
SentText(cmd) == cmd \o <<"\n">>

\* send_command: cmd and a newline are written to the stdin of the process the
\* handle now names and flushed, and True is returned (ok); or the write
\* raises (the handle was emptied, the pipe is broken, or the write fails
\* otherwise), the error is logged and False is returned.
SendWrite(t, ok) ==
    /\ th[t].pc = "send_write"
    /\ ok => server_process # NoProcess /\ server_process \in alive
    /\ IF ok
       THEN /\ stdin' = [stdin EXCEPT ![server_process] =
                            Append(@, SentText(th[t].cmd))]
            /\ th' = [th EXCEPT ![t].pc = "ret", ![t].result = "True"]
       ELSE /\ th' = [th EXCEPT ![t].pc = "ret", ![t].result = "False",
                                ![t].log = "error"]
            /\ UNCHANGED stdin
    /\ UNCHANGED <<server_process, alive, dir_exists, server_output, spawned, pipe,
                   emitted, pump, calls, appended, state_result, playit_result,
                   output_lock, ram_file, ram_result>>

\* stream_logs begins: server_process.stdout is evaluated on the global
\* handle (AttributeError, ending the thread, when it has been emptied).
PumpStart(k) ==
    /\ pump[k].pc = "start"
    /\ pump' = [pump EXCEPT ![k] =
                  IF server_process = NoProcess
                  THEN [pump[k] EXCEPT !.pc = "crashed"]
                  ELSE [pump[k] EXCEPT !.pc = "read", !.src = server_process]]
    /\ UNCHANGED <<server_process, alive, dir_exists, server_output, spawned, pipe,
                   emitted, th, calls, appended, state_result, playit_result,
                   stdin, output_lock, ram_file, ram_result>>

\* A loop that does not see the end of the stream and goes on reading.
EndOfStreamMissed(s, live) == FALSE

\* The stream of process s is at its end once s has exited and every line
\* it wrote has been read: the iteration over stdout stops.
EndOfStream(s, live) == s \notin live

\* stream_logs: the next line is read from the stream and stripped, or the
\* stream has ended and the thread with it.
PumpRead(k) ==
    /\ pump[k].pc = "read"
    /\ LET s == pump[k].src
       IN  IF pipe[s] # <<>>
           THEN /\ pump' = [pump EXCEPT ![k].pc = "append",
                                        ![k].line = Strip(Head(pipe[s]))]
                /\ pipe' = [pipe EXCEPT ![s] = Tail(pipe[s])]
           ELSE /\ EndOfStream(s, alive)
                /\ pump' = [pump EXCEPT ![k].pc = "done"]
                /\ UNCHANGED pipe
    /\ UNCHANGED <<server_process, alive, dir_exists, server_output, spawned,
                   emitted, th, calls, appended, state_result, playit_result,
                   stdin, output_lock, ram_file, ram_result>>

\* stream_logs: the stripped line is appended under the lock.
PumpAppend(k) ==
    /\ pump[k].pc = "append"
    /\ server_output' = AppendLine(server_output, pump[k].line)
    /\ appended' = Append(appended, pump[k].line)
    /\ pump' = [pump EXCEPT ![k].pc = "read", ![k].line = <<>>]
    /\ UNCHANGED <<server_process, alive, dir_exists, spawned, pipe, emitted, th,
                   calls, state_result, playit_result,
                   stdin, output_lock, ram_file, ram_result>>

\* How many lines the child processes have printed, all together.
RECURSIVE SumUpTo(_, _)
SumUpTo(f, n) == IF n = 0 THEN 0 ELSE f[n] + SumUpTo(f, n - 1)

TotalEmitted == SumUpTo(emitted, MaxProcs)

\* A running child prints its next line.
ChildPrints(p) ==
    /\ p \in alive
    /\ TotalEmitted < MaxEmit
    /\ pipe' = [pipe EXCEPT ![p] = Append(pipe[p], NumberedLine(p, emitted[p] + 1))]
    /\ emitted' = [emitted EXCEPT ![p] = emitted[p] + 1]
    /\ UNCHANGED <<server_process, alive, dir_exists, server_output, spawned, th,
                   pump, calls, appended, state_result, playit_result,
                   stdin, output_lock, ram_file, ram_result>>

\* A running child exits (on "stop", or on its own).
ChildExits(p) ==
    /\ p \in alive
    /\ alive' = alive \ {p}
    /\ UNCHANGED <<server_process, dir_exists, server_output, spawned, pipe,
                   emitted, th, pump, calls, appended, state_result, playit_result,
                   stdin, output_lock, ram_file, ram_result>>

Next ==
    \/ \E t \in Threads, o \in Operations : Call(t, o)
    \/ \E t \in Threads : Check1(t)
    \/ \E t \in Threads : Check2(t)
    \/ \E t \in Threads : LaunchWait(t)
    \/ \E t \in Threads : LaunchClear(t)
    \/ \E t \in Threads, ok \in BOOLEAN : LaunchSpawn(t, ok)
    \/ \E t \in Threads : LaunchStartPump(t)
    \/ \E t \in Threads, ok \in BOOLEAN : StopWrite(t, ok)
    \/ \E t \in Threads : StopWait(t)
    \/ \E t \in Threads, ok \in BOOLEAN : StopKill(t, ok)
    \/ \E t \in Threads : StopWaitKilled(t)
    \/ \E t \in Threads : StopFinally(t)
    \/ \E t \in Threads, ok \in BOOLEAN : DeleteRmtree(t, ok)
    \/ \E k \in ProcIds : PumpStart(k)
    \/ \E k \in ProcIds : PumpRead(k)
    \/ \E k \in ProcIds : PumpAppend(k)
    \/ \E p \in ProcIds : ChildPrints(p)
    \/ \E p \in ProcIds : ChildExits(p)

Spec == Init /\ [][Next]_vars

\* The state in which a first launch_server call leaves the supervisor: the
\* child running, its stream_logs thread started and not yet scheduled.
InitRunning ==
    /\ spawned = 1
    /\ server_process = 1
    /\ alive = {1}
    /\ dir_exists = TRUE
    /\ server_output = <<>>
    /\ appended = <<>>
    /\ th = [t \in Threads |-> IdleThread]
    /\ pump = [p \in ProcIds |-> IF p = 1 THEN [NoPump EXCEPT !.pc = "start"]
                                          ELSE NoPump]
    /\ calls = 0
    /\ output_lock = Free
    /\ NoChildOutput
    /\ NoQueries

\* The requests that follow a first launch, the status query and send_command
\* among them.
NextAll ==
    \/ Next
    \/ \E t \in Threads : Call(t, "running")
    \/ \E t \in Threads, c \in Commands : CallSend(t, c)
    \/ \E t \in Threads, ok \in BOOLEAN : SendWrite(t, ok)

SpecAll == InitRunning /\ [][NextAll]_vars

\* One request at a time: every operation runs from its call to its return
\* before the next one is invoked. The children and the pumps run on.
Sequential == \A t \in Threads : t # "t1" => th[t].pc = "idle"

NextSeq ==
    \/ \E o \in Operations \cup {"running"} : Call("t1", o)
    \/ \E c \in Commands : CallSend("t1", c)
    \/ Check1("t1")
    \/ Check2("t1")
    \/ LaunchWait("t1")
    \/ LaunchClear("t1")
    \/ \E ok \in BOOLEAN : LaunchSpawn("t1", ok)
    \/ LaunchStartPump("t1")
    \/ \E ok \in BOOLEAN : StopWrite("t1", ok)
    \/ StopWait("t1")
    \/ \E ok \in BOOLEAN : StopKill("t1", ok)
    \/ StopWaitKilled("t1")
    \/ StopFinally("t1")
    \/ \E ok \in BOOLEAN : DeleteRmtree("t1", ok)
    \/ \E ok \in BOOLEAN : SendWrite("t1", ok)
    \/ \E k \in ProcIds : PumpStart(k)
    \/ \E k \in ProcIds : PumpRead(k)
    \/ \E k \in ProcIds : PumpAppend(k)
    \/ \E p \in ProcIds : ChildPrints(p)
    \/ \E p \in ProcIds : ChildExits(p)

SpecSeq == Init /\ [][NextSeq]_vars

\* ------------------------------------------------------------------------
\* Properties of the lifecycle
\* ------------------------------------------------------------------------

\* C1: in every reachable state, whatever the interleaving of launch_server,
\* stop_server and delete_server calls, at most one child process spawned by
\* the supervisor is alive.
C1_AtMostOneChildAlive == Cardinality(alive) <= 1

\* C2: a launch_server call that finds a child alive stops it, waits, and
\* goes on to clear the buffer and spawn: unless Popen fails, it returns
\* normally, having spawned a new process and started its output pump.
C2_LaunchReplacesRunning ==
    \A t \in Threads :
        ( /\ th[t].op = "launch"
          /\ th[t].stopped_first
          /\ th[t].pc = "ret"
          /\ th[t].result # "spawn_failed" )
        => /\ th[t].result = "returned"
           /\ th[t].mine # NoProcess
           /\ pump[th[t].mine].pc # "none"

\* C3: when stop_server has found a process alive, the step by which it
\* completes leaves the process handle empty, on every path through it.
C3_StopClearsHandle ==
    [][\A t \in Threads :
          (th[t].pc \in StopBody /\ th'[t].pc \notin StopBody)
              => server_process' = NoProcess]_vars

\* A stop_server call has completed after its kill raised, the child still
\* running, and the handle is empty.
C3_Witness ==
    \E t \in Threads :
        /\ th[t].op = "stop"
        /\ th[t].pc = "ret"
        /\ th[t].stop_path = "kill_failed"
        /\ alive # {}
        /\ server_process = NoProcess

\* ------------------------------------------------------------------------
\* Properties of the operations, one request at a time
\* ------------------------------------------------------------------------

\* The state of the supervisor and of what it supervises.
SupervisorState == <<server_process, alive, dir_exists, server_output, spawned>>

\* The positions inside send_command.
SendBody == {"check1", "check2", "send_write"}

\* C11: send_command fails closed. A step of send_command taken while no
\* process is alive (handle empty, or naming an exited process) writes to no
\* input stream and changes no supervisor state, and when it ends the call
\* the call returns False. The call returns True or False; it returns True
\* only having written the text and a newline to the stdin of the live
\* process, and False on a write error, nothing written.
C11_SendFailsClosed ==
    [][\A t \in Threads :
          (th[t].fn = "send" /\ th[t].pc \in SendBody /\ th'[t] # th[t])
          => /\ ~ProcessAlive
                => /\ stdin' = stdin
                   /\ SupervisorState' = SupervisorState
                   /\ th'[t].pc = "ret" => th'[t].result = "False"
             /\ th'[t].pc = "ret" => th'[t].result \in {"True", "False"}
             /\ th[t].pc = "send_write"
                => IF th'[t].result = "True"
                   THEN /\ ProcessAlive
                        /\ stdin' = [stdin EXCEPT ![server_process] =
                                        Append(@, th[t].cmd \o <<"\n">>)]
                   ELSE stdin' = stdin]_vars

\* send_command has returned False, refusing to write, while the handle names
\* a process that has exited; nothing was ever written to a child.
C11_Witness ==
    /\ th["t1"].op = "send"
    /\ th["t1"].pc = "ret"
    /\ th["t1"].result = "False"
    /\ th["t1"].log = "warning"
    /\ server_process # NoProcess
    /\ server_process \notin alive
    /\ \A p \in ProcIds : stdin[p] = <<>>

\* C12: stop_server called when no process is alive is a no-op. A step of
\* stop_server's test taken while no process is alive writes to no input
\* stream, kills nothing and leaves the handle and the buffer unchanged, and
\* stop_server then returns without error, never entering its try statement.
C12_StopIdleIsNoOp ==
    [][\A t \in Threads :
          ( /\ th[t].fn = "stop"
            /\ th[t].pc \in {"check1", "check2"}
            /\ th'[t] # th[t]
            /\ ~ProcessAlive )
          => /\ stdin' = stdin
             /\ alive' = alive
             /\ server_process' = server_process
             /\ server_output' = server_output
             /\ th'[t].pc \notin StopBody
             /\ th'[t].result # "raised"
             /\ th'[t].pc # "check2"
                => /\ th'[t].pc = AfterStop(th[t]).pc
                   /\ th'[t].result = AfterStop(th[t]).result]_vars

\* stop_server has returned, having done nothing, while the handle names a
\* process that exited on its own: the handle still names it.
C12_Witness ==
    /\ th["t1"].op = "stop"
    /\ th["t1"].pc = "ret"
    /\ th["t1"].result = "returned"
    /\ th["t1"].stop_path = "none"
    /\ server_process # NoProcess
    /\ server_process \notin alive
    /\ stdin[server_process] = <<>>

\* C13: launch_server always clears prior buffer contents. Once a launch has
\* returned, its pump started, and as long as the process it spawned has
\* printed nothing, get_logs returns the placeholder.
C13_LaunchClearsBuffer ==
    \A t \in Threads :
        ( /\ th[t].op = "launch"
          /\ th[t].pc = "ret"
          /\ th[t].result = "returned"
          /\ emitted[th[t].mine] = 0 )
        => get_logs(server_output) = LOGS_PLACEHOLDER

\* ------------------------------------------------------------------------
\* Specification of the RAM setting of launch_server over every ram.txt
\* ------------------------------------------------------------------------

\* The longest ram.txt read.
MaxRamLen == 3

\* The characters of the ram.txt contents read.
RamChars == {"8", "0", "1", "a", "-", "_", " ", "\n"}

RamRecords == {None} \cup SeqUpTo(RamChars, MaxRamLen)

DEFAULT_RAM == 2

\* The value of a decimal digit.
DigitValue(c) == CHOOSE d \in 0..9 : DIGITS[d + 1] = c

\* int(): the digits of a literal, single underscores allowed between them.
IsDigitRun(body) ==
    /\ body # <<>>
    /\ IsDigit(body[1])
    /\ IsDigit(body[Len(body)])
    /\ \A i \in 1..Len(body) : IsDigit(body[i]) \/ body[i] = "_"
    /\ \A i \in 1..(Len(body) - 1) : ~(body[i] = "_" /\ body[i + 1] = "_")

\* int(): the literal without its sign.
Unsigned(s) == IF s # <<>> /\ Head(s) \in {"+", "-"} THEN Tail(s) ELSE s

\* int(s) raises ValueError unless s, stripped, is an integer literal.
IsIntLiteral(s) == IsDigitRun(Unsigned(Strip(s)))

RECURSIVE DigitsValue(_, _)
DigitsValue(body, acc) ==
    IF body = <<>> THEN acc
    ELSE IF Head(body) = "_" THEN DigitsValue(Tail(body), acc)
    ELSE DigitsValue(Tail(body), 10 * acc + DigitValue(Head(body)))

\* int(s), for an integer literal s.
IntOf(s) ==
    LET t == Strip(s)
        n == DigitsValue(Unsigned(t), 0)
    IN  IF Head(t) = "-" THEN 0 - n ELSE n

\* The test of the value read, accepting zero.
RamAcceptedFromZero(val) == val >= 0

\* launch_server: if ram_val >= 1.
RamAccepted(val) == val >= 1

\* f"-Xmx{ram}G" and f"-Xms{ram}G"
HeapFlag(kind, ram) == <<"-", "X", "m", kind>> \o Decimal(ram) \o <<"G">>

\* The argument vector launch_server gives to Popen.
PopenArgs(ram) ==
    <<"java", HeapFlag("x", ram), HeapFlag("s", ram), "-jar", "server.jar", "nogui">>

\* launch_server, from the reading of ram.txt to the argument vector: the
\* heap size, the warning logged and the arguments.
ReadRam(record) ==
    LET ram == IF record = None THEN DEFAULT_RAM
               ELSE IF ~IsIntLiteral(Strip(record)) THEN DEFAULT_RAM
               ELSE IF RamAccepted(IntOf(Strip(record))) THEN IntOf(Strip(record))
               ELSE DEFAULT_RAM
        warning == IF record = None THEN "none"
                   ELSE IF ~IsIntLiteral(Strip(record)) THEN "non_integer"
                   ELSE IF RamAccepted(IntOf(Strip(record))) THEN "none"
                   ELSE "invalid"
    IN  [ram |-> ram, warning |-> warning, args |-> PopenArgs(ram)]

RamInit ==
    /\ spawned = 0
    /\ server_process = NoProcess
    /\ alive = {}
    /\ dir_exists = TRUE
    /\ server_output = <<>>
    /\ appended = <<>>
    /\ NoThreads
    /\ NoChildOutput
    /\ state_result = Unset
    /\ playit_result = NoTuple
    /\ ram_file \in RamRecords
    /\ ram_result = NoTuple

LaunchReadRam ==
    /\ ram_result = NoTuple
    /\ ram_result' = <<ReadRam(ram_file)>>
    /\ UNCHANGED <<server_process, alive, dir_exists, server_output, spawned, pipe,
                   emitted, th, pump, calls, appended, state_result, playit_result,
                   stdin, output_lock, ram_file>>

RamNext == LaunchReadRam

SpecRam == RamInit /\ [][RamNext]_vars

\* What the record holds between blanks, once the file exists.
Held(record) == IF record = None THEN <<>> ELSE Strip(record)

\* The record holds decimal digits and nothing else.
HoldsDigits(text) == text # <<>> /\ \A i \in 1..Len(text) : IsDigit(text[i])

\* The record holds a character no integer is written with, or nothing.
HoldsNonNumeric(record) ==
    /\ record # None
    /\ \/ Strip(record) = <<>>
       \/ \E i \in 1..Len(record) :
             record[i] \notin DigitSet \cup WhitespaceSet \cup {"-", "+", "_"}

\* The largest integer a record of four digits holds, and one more.
MaxRamValue == 10 * 10 * 10 * 10

\* C14: the heap size equals the integer in the RAM record when that integer
\* is at least 1 ("8" gives 8 GB in both heap flags) and the default 2 when
\* the record is absent (no warning), non-numeric or less than 1 (with a
\* warning); whatever the record, the launch goes on to Popen.
C14_HeapFromRamRecord ==
    ram_result # NoTuple =>
        LET r == ram_result[1]
            held == Held(ram_file)
        IN  /\ r.args = <<"java", <<"-", "X", "m", "x">> \o Decimal(r.ram) \o <<"G">>,
                          <<"-", "X", "m", "s">> \o Decimal(r.ram) \o <<"G">>,
                          "-jar", "server.jar", "nogui">>
            /\ ram_file = <<"8">> => r.ram = 8 /\ r.warning = "none"
            /\ ram_file = None => r.ram = 2 /\ r.warning = "none"
            /\ HoldsNonNumeric(ram_file) => r.ram = 2 /\ r.warning = "non_integer"
            /\ HoldsDigits(held)
                  => \A n \in 0..MaxRamValue :
                        held = Decimal(n)
                            => IF n >= 1
                               THEN r.ram = n /\ r.warning = "none"
                               ELSE r.ram = 2 /\ r.warning = "invalid"
            /\ (held # <<>> /\ Head(held) = "-" /\ HoldsDigits(Tail(held)))
                  => r.ram = 2 /\ r.warning = "invalid"

\* ram.txt held a blank, "0" and a newline: the launch used 2 GB, with the
\* warning of an invalid value.
C14_Witness ==
    /\ ram_file = <<" ", "0", "\n">>
    /\ ram_result # NoTuple
    /\ ram_result[1].ram = 2
    /\ ram_result[1].warning = "invalid"

\* C16: delete_server called while a process is alive runs stop_server to
\* its end before it removes the directory; when it returns True the
\* directory no longer exists and the handle is empty, so the readiness
\* state is offline; and it returns True or False, never raising.
C16_DeleteStopsThenRemoves ==
    \A t \in Threads :
        (th[t].op = "delete" /\ th[t].stopped_first)
        => /\ th[t].pc = "rmtree" => th[t].fn = "delete"
           /\ th[t].pc = "ret" => th[t].result \in {"True", "False"}
           /\ (th[t].pc = "ret" /\ th[t].result = "True")
              => /\ ~dir_exists
                 /\ server_process = NoProcess
                 /\ get_server_state(dir_exists, server_process, alive,
                                     server_output) = "offline"

\* ------------------------------------------------------------------------
\* Properties of the operations under concurrent requests
\* ------------------------------------------------------------------------

\* C15: when Popen fails, the step that handles the failure logs it, leaves
\* the handle empty and starts no pump; is_server_running is false in the
\* state it leads to, and launch_server returns there without raising.
C15_SpawnFailureLeavesNoProcess ==
    [][\A t \in Threads :
          (th[t].pc = "spawn" /\ th'[t] # th[t] /\ spawned' = spawned)
          => /\ th'[t].log = "error"
             /\ server_process' = NoProcess
             /\ pump' = pump
             /\ ~is_server_running(server_process', alive')
             /\ th'[t].pc = "ret"
             /\ th'[t].result = "spawn_failed"]_vars

\* A launch has returned after Popen failed, the handle empty, where an
\* earlier launch had left the handle naming its child.
C15_Witness ==
    \E t \in Threads :
        /\ th[t].op = "launch"
        /\ th[t].pc = "ret"
        /\ th[t].result = "spawn_failed"
        /\ th[t].log = "error"
        /\ spawned = 1
        /\ server_process = NoProcess
        /\ \A k \in ProcIds : k > spawned => pump[k] = NoPump

\* C17: no core operation raises through to its caller: whatever the state
\* and the interleaving, launch_server, stop_server, send_command,
\* delete_server and is_server_running end by returning, never in an
\* uncaught exception.
C17_NoOperationRaises == \A t \in Threads : th[t].result # "raised"

\* C18: no reader sees the handle change between its not-empty test and its
\* use. is_server_running never polls a handle emptied since its test, and
\* send_command writes only to the handle its test polled.
C18_HandleStableForReaders ==
    [][\A t \in Threads :
          /\ (th[t].pc = "check2" /\ th'[t] # th[t]) => server_process # NoProcess
          /\ (th[t].pc = "send_write" /\ th'[t] # th[t])
             => server_process = th[t].checked]_vars

\* C19: each launch that returns has started one pump, and the pump of a
\* launch is bound to the process that launch spawned: it never fails on an
\* emptied handle and never reads the stream of another launch's process.
C19_PumpBoundToOwnProcess ==
    /\ \A t \in Threads :
          (th[t].op = "launch" /\ th[t].pc = "ret" /\ th[t].result = "returned")
              => pump[th[t].mine].pc # "none"
    /\ \A k \in ProcIds :
          /\ pump[k].pc # "crashed"
          /\ pump[k].pc \in {"read", "append", "done"} => pump[k].src = k

\* ------------------------------------------------------------------------
\* Specification of the supervisor with the steps of output_lock
\*
\* Each `with output_lock:` statement is two steps: the lock is taken when
\* nobody holds it, then the body runs and the lock is released. One thread
\* serves the start requests and another the status polls, after a first
\* launch.
\* ------------------------------------------------------------------------

\* The holders of output_lock.
PumpHolder(k) == <<"pump", Decimal(k)>>

ThreadHolder(t) == <<"thread", <<t>>>>

\* The readers of the buffer.
Readers == {"get_logs", "get_playit_status"}

\* The lock after the locked body of stream_logs, had the with statement
\* enclosed the for loop: the pump goes back to the stream holding it.
LockKeptByPump(k) == PumpHolder(k)

\* The lock after the locked body of stream_logs: the with statement ends
\* inside the loop, before the next line is read.
LockAfterAppend(k) == Free

\* The web layer invokes reader o on request thread t, which is free.
CallReader(t, o) ==
    /\ th[t].pc \in {"idle", "ret"}
    /\ calls < MaxCalls
    /\ calls' = calls + 1
    /\ th' = [th EXCEPT ![t] = [IdleThread EXCEPT !.pc = "read_acquire", !.op = o,
                                                 !.fn = o]]
    /\ UNCHANGED <<server_process, alive, dir_exists, server_output, spawned, pipe,
                   emitted, pump, appended, state_result, playit_result,
                   stdin, output_lock, ram_file, ram_result>>

\* get_logs, get_playit_status: with output_lock, entered.
ReaderAcquire(t) ==
    /\ th[t].pc = "read_acquire"
    /\ output_lock = Free
    /\ output_lock' = ThreadHolder(t)
    /\ th' = [th EXCEPT ![t].pc = "read_locked"]
    /\ UNCHANGED <<server_process, alive, dir_exists, server_output, spawned, pipe,
                   emitted, pump, calls, appended, state_result, playit_result,
                   stdin, ram_file, ram_result>>

\* get_logs, get_playit_status: the buffer is read and the lock released as
\* the function returns.
ReaderRead(t) ==
    /\ th[t].pc = "read_locked"
    /\ output_lock' = Free
    /\ playit_result' = IF th[t].op = "get_playit_status"
                        THEN <<get_playit_status(server_output)>>
                        ELSE playit_result
    /\ th' = [th EXCEPT ![t].pc = "ret", ![t].result = "returned"]
    /\ UNCHANGED <<server_process, alive, dir_exists, server_output, spawned, pipe,
                   emitted, pump, calls, appended, state_result, stdin, ram_file,
                   ram_result>>

\* launch_server: with output_lock, entered.
ClearAcquire(t) ==
    /\ th[t].pc = "clear"
    /\ output_lock = Free
    /\ output_lock' = ThreadHolder(t)
    /\ th' = [th EXCEPT ![t].pc = "clear_locked"]
    /\ UNCHANGED <<server_process, alive, dir_exists, server_output, spawned, pipe,
                   emitted, pump, calls, appended, state_result, playit_result,
                   stdin, ram_file, ram_result>>

\* launch_server: the buffer is cleared and the lock released.
ClearLocked(t) ==
    /\ th[t].pc = "clear_locked"
    /\ server_output' = <<>>
    /\ appended' = <<>>
    /\ output_lock' = Free
    /\ th' = [th EXCEPT ![t].pc = "spawn"]
    /\ UNCHANGED <<server_process, alive, dir_exists, spawned, pipe, emitted, pump,
                   calls, state_result, playit_result, stdin, ram_file, ram_result>>

\* stream_logs: with output_lock, entered, the stripped line in hand.
PumpAcquire(k) ==
    /\ pump[k].pc = "append"
    /\ output_lock = Free
    /\ output_lock' = PumpHolder(k)
    /\ pump' = [pump EXCEPT ![k].pc = "locked"]
    /\ UNCHANGED <<server_process, alive, dir_exists, server_output, spawned, pipe,
                   emitted, th, calls, appended, state_result, playit_result,
                   stdin, ram_file, ram_result>>

\* stream_logs: the line is appended, the oldest evicted when over capacity,
\* and the lock released; the loop goes back to the stream.
PumpAppendLocked(k) ==
    /\ pump[k].pc = "locked"
    /\ server_output' = AppendLine(server_output, pump[k].line)
    /\ appended' = Append(appended, pump[k].line)
    /\ output_lock' = LockAfterAppend(k)
    /\ pump' = [pump EXCEPT ![k].pc = "read", ![k].line = <<>>]
    /\ UNCHANGED <<server_process, alive, dir_exists, spawned, pipe, emitted, th,
                   calls, state_result, playit_result, stdin, ram_file, ram_result>>

\* The thread serving the start requests and the thread serving the status
\* polls, which read the buffer.
Launcher == "t1"

Poller == "t2"

NextLock ==
    \/ Call(Launcher, "launch")
    \/ \E o \in Readers : CallReader(Poller, o)
    \/ Check1(Launcher)
    \/ Check2(Launcher)
    \/ LaunchWait(Launcher)
    \/ ClearAcquire(Launcher)
    \/ ClearLocked(Launcher)
    \/ \E ok \in BOOLEAN : LaunchSpawn(Launcher, ok)
    \/ LaunchStartPump(Launcher)
    \/ \E ok \in BOOLEAN : StopWrite(Launcher, ok)
    \/ StopWait(Launcher)
    \/ \E ok \in BOOLEAN : StopKill(Launcher, ok)
    \/ StopWaitKilled(Launcher)
    \/ StopFinally(Launcher)
    \/ ReaderAcquire(Poller)
    \/ ReaderRead(Poller)
    \/ \E k \in ProcIds : PumpStart(k)
    \/ \E k \in ProcIds : PumpRead(k)
    \/ \E k \in ProcIds : PumpAcquire(k)
    \/ \E k \in ProcIds : PumpAppendLocked(k)
    \/ \E p \in ProcIds : ChildPrints(p)
    \/ \E p \in ProcIds : ChildExits(p)

SpecLock == InitRunning /\ [][NextLock]_vars

\* The positions at which a request thread holds output_lock.
LockedPositions == {"read_locked", "clear_locked"}

\* C20: output_lock is held only for one append-with-eviction, read or
\* clear. A pump that is at the stream, waiting for output or not, does not
\* hold the lock; whoever holds it is inside a locked body, which ends,
\* releasing it, without waiting for anything.
C20_LockHeldOnlyForBody ==
    /\ \A k \in ProcIds :
          /\ pump[k].pc # "locked" => output_lock # PumpHolder(k)
          /\ output_lock = PumpHolder(k) => ENABLED PumpAppendLocked(k)
    /\ \A t \in Threads :
          /\ th[t].pc \notin LockedPositions => output_lock # ThreadHolder(t)
          /\ output_lock = ThreadHolder(t) => ENABLED (ReaderRead(t) \/ ClearLocked(t))
    /\ output_lock = Free =>
          /\ \A t \in Threads : th[t].pc = "read_acquire" => ENABLED ReaderAcquire(t)
          /\ \A t \in Threads : th[t].pc = "clear" => ENABLED ClearAcquire(t)

\* A pump waits on the empty stream of its running child, having appended a
\* line before, while a reader is inside its locked body.
C20_Witness ==
    \E k \in ProcIds, t \in Threads :
        /\ pump[k].pc = "read"
        /\ pipe[pump[k].src] = <<>>
        /\ pump[k].src \in alive
        /\ appended # <<>>
        /\ th[t].pc = "read_locked"
        /\ output_lock = ThreadHolder(t)

\* ------------------------------------------------------------------------
\* Specification of the supervisor with the steps of output_lock, the
\* threads scheduled fairly
\*
\* A thread that can take a step eventually takes one: the pump threads read,
\* take the lock when it is free and append; the request threads leave the
\* locked bodies they have entered. Nothing obliges a child to print or to
\* exit, nor the web layer to send a request.
\* ------------------------------------------------------------------------

PumpFairness ==
    \A k \in ProcIds :
        /\ WF_vars(PumpRead(k))
        /\ WF_vars(PumpAcquire(k))
        /\ WF_vars(PumpAppendLocked(k))

LockReleased ==
    /\ WF_vars(ReaderRead(Poller))
    /\ WF_vars(ClearLocked(Launcher))

SpecLockFair == SpecLock /\ PumpFairness /\ LockReleased

\* Pump k has a stream, and the process at the other end of it has exited.
StreamClosedFor(k) ==
    /\ pump[k].pc \in {"read", "append", "locked"}
    /\ pump[k].src \notin alive

\* Pump k has ended at the end of its stream, no line left in the pipe or in
\* its hands.
EndedNaturally(k) ==
    /\ pump[k].pc = "done"
    /\ pump[k].line = <<>>
    /\ pipe[pump[k].src] = <<>>

\* C21: the output pump terminates naturally. Once the stream a pump reads
\* is closed (the process exited or was killed), the pump, scheduled fairly
\* and the lock released by its holders, eventually ends, every line of the
\* stream read and appended, without being cancelled.
C21_PumpTerminates == \A k \in ProcIds : StreamClosedFor(k) ~> EndedNaturally(k)

\* A pump has ended at the end of the stream of a child that printed and
\* exited; the line it read is in the buffer.
C21_Witness ==
    \E k \in ProcIds :
        /\ EndedNaturally(k)
        /\ emitted[pump[k].src] > 0
        /\ appended # <<>>
        /\ server_output = appended

\* ------------------------------------------------------------------------
\* Further properties of the readers
\* ------------------------------------------------------------------------

\* Line i of the buffer is a ready-marker line embedding a join domain.
ReadyWithDomain(i) ==
    /\ IsReadyMarkerLine(server_output[i])
    /\ EmbeddedDomain(server_output[i]) # None

\* C22: the tuple get_playit_status returns is well-formed. tunnel_ready is
\* true exactly when joinmc_domain is not None; a ready-marker line without a
\* join domain neither sets tunnel_ready nor stops the scan: the tunnel is
\* reported ready exactly when some ready-marker line embeds a domain, and
\* the domain is that of the most recent such line.
C22_TupleWellFormed ==
    playit_result # NoTuple =>
        LET r == playit_result[1]
        IN  /\ r.tunnel_ready <=> r.joinmc_domain # None
            /\ r.tunnel_ready <=> \E i \in 1..Len(server_output) : ReadyWithDomain(i)
            /\ \A i \in 1..Len(server_output) :
                  ( /\ ReadyWithDomain(i)
                    /\ \A j \in (i + 1)..Len(server_output) : ~ReadyWithDomain(j) )
                  => r.joinmc_domain = EmbeddedDomain(server_output[i])

\* The scan has passed a ready-marker line without a domain, the most recent
\* line, and reached the ready line with a domain behind it.
C22_Witness ==
    /\ server_output = <<LineReadyBare, LineClaimNoUrl, LineReadyNoDomain>>
    /\ Returned(TRUE, None, DomainFoo)

\* ------------------------------------------------------------------------
\* Further properties of the lifecycle
\* ------------------------------------------------------------------------

\* C23: no orphaned child. In every reachable state every child that is
\* still alive is the one the handle names; so when is_server_running is
\* false no supervised child is alive, and a live child can be reached by
\* stop_server and send_command.
C23_NoOrphanedChild ==
    /\ \A p \in alive : p = server_process
    /\ ~is_server_running(server_process, alive) => alive = {}

====
